---- MODULE Spec2Model ----
(***************************************************************************)
(* PyCOMPSs decorator stack: @constraint, @mpi and @data_transformation    *)
(* wrapped around a task function, the CE core-element descriptor they     *)
(* fill, and the execution context (interactive start/stop) they branch on.*)
(*                                                                         *)
(* An optional Python value is a sequence: <<>> is None / "key not in      *)
(* dict", <<v>> is the value v.                                            *)
(***************************************************************************)
EXTENDS Integers, Sequences, FiniteSets, TLC

\* ------------------------------------------------------------------ bounds
\* Invocations of one decorated task that the model follows.
MaxCalls == 2

\* ------------------------------------------------------- execution context
OUT_OF_SCOPE == "OUT_OF_SCOPE"
MASTER == "MASTER"
WORKER == "WORKER"
Contexts == {OUT_OF_SCOPE, MASTER, WORKER}

\* context.in_pycompss(): the role is set.
in_pycompss(ctx) == ctx # OUT_OF_SCOPE
\* context.in_master()
in_master(ctx) == ctx = MASTER

\* ------------------------------------------------------------ Python values
None == <<>>
Some(v) == <<v>>
IsSet(o) == o # <<>>
Val(o) == o[1]

DigitChar == <<"0", "1", "2", "3", "4", "5", "6", "7", "8", "9">>

RECURSIVE StrNat(_)
\* str(n) of a non-negative int: its decimal digits.
StrNat(n) == IF n < 10 THEN DigitChar[n + 1]
             ELSE StrNat(n \div 10) \o DigitChar[(n % 10) + 1]

\* str(n) of an int.
StrInt(n) == IF n < 0 THEN "-" \o StrNat(0 - n) ELSE StrNat(n)

\* ------------------------------------------------------------------ CE
\* CE(): every field None.
NewCE == [ceSignature |-> None, implSignature |-> None,
          implConstraints |-> None, implType |-> None,
          implIO |-> None, implTypeArgs |-> None]

\* CE.reset()
reset(ce) == NewCE

CEFields == {"ceSignature", "implSignature", "implConstraints",
             "implType", "implIO", "implTypeArgs"}

\* The CE setters: a plain assignment to the one field.
set_field(ce, field, value) == [ce EXCEPT ![field] = Some(value)]

set_ce_signature(ce, v) == set_field(ce, "ceSignature", v)
set_impl_signature(ce, v) == set_field(ce, "implSignature", v)
set_impl_constraints(ce, v) == set_field(ce, "implConstraints", v)

\* A setter that also clears the type arguments.
set_impl_type_clears_args(ce, v) ==
    [set_field(ce, "implType", v) EXCEPT !.implTypeArgs = None]

set_impl_type(ce, v) == set_field(ce, "implType", v)
set_impl_io(ce, v) == set_field(ce, "implIO", v)
set_impl_type_args(ce, v) == set_field(ce, "implTypeArgs", v)

\* The CE getters: the value of the one field, None while it is unset.
get_ce_signature(ce) == ce.ceSignature
get_impl_signature(ce) == ce.implSignature
get_impl_constraints(ce) == ce.implConstraints
get_impl_type(ce) == ce.implType
get_impl_io(ce) == ce.implIO
get_impl_type_args(ce) == ce.implTypeArgs

\* ------------------------------------------------------------- declarations
\* The decorated task functions the program declares.
Tasks == {"f", "g"}

\* Decorator stacks, outermost first; the innermost callable is the task
\* function itself.
Stacks == {<<"constraint">>, <<"mpi">>, <<"dt">>,
           <<"constraint", "mpi">>, <<"mpi", "constraint">>}

\* The keyword arguments of @constraint(...) on each task.
ConstraintKwargs(t) ==
    IF t = "f" THEN {<<"computing_units", "2">>}
    ELSE {<<"computing_units", "4">>, <<"memory_size", "8">>,
          <<"colour", "red">>}

\* The resource-requirement names the engine recognizes.
EngineConstraintNames ==
    {"computing_units", "processor_name", "processor_speed",
     "processor_architecture", "memory_size", "memory_type", "storage_size",
     "storage_type", "operating_system_type", "wall_clock_limit"}

\* A <param>_layout option of @mpi: the key is param \o "_layout".
Layout(p, bc, bl, s) ==
    [param |-> p, block_count |-> bc, block_length |-> bl, stride |-> s]

\* @mpi(...) keyword arguments.
MpiKw(runner, binary, flags, scale, procs, layouts) ==
    [runner |-> runner, binary |-> binary, flags |-> flags,
     scale_by_cu |-> scale, processes |-> procs,
     working_dir |-> None, fail_by_exit_value |-> None, layouts |-> layouts,
     other |-> {}]

NoMpiKw == MpiKw(None, None, None, None, None, <<>>)

PyBool(b) == [type |-> "bool", val |-> IF b THEN "True" ELSE "False"]
PyStr(s) == [type |-> "str", val |-> s]
PyInt(n) == [type |-> "int", val |-> StrInt(n)]

MpiOptions ==
    { MpiKw(Some("mpirun"), None, None, None, None, <<>>),
      MpiKw(Some("mpirun"), Some("app.bin"), None, None, Some(2), <<>>),
      MpiKw(Some("srun"), None, Some("-v"), Some(PyBool(TRUE)), None,
            <<Layout("x", Some(2), Some(1), None)>>),
      MpiKw(Some("mpirun"), None, None, Some(PyInt(3)), None, <<>>),
      MpiKw(Some("mpirun"), None, None, None, None,
            <<Layout("x", Some(2), None, None), Layout("y", Some(1), None, None)>>),
      MpiKw(None, Some("app.bin"), None, None, None, <<>>),
      [MpiKw(Some("mpirun"), None, None, None, None, <<>>)
           EXCEPT !.other = {"verbose"}] }

\* No argument is mandatory.
MANDATORY_ARGUMENTS_none == {}

\* mpi.py MANDATORY_ARGUMENTS, SUPPORTED_ARGUMENTS, DEPRECATED_ARGUMENTS
MANDATORY_ARGUMENTS == {"runner"}
SUPPORTED_ARGUMENTS ==
    {"binary", "processes", "working_dir", "runner", "flags", "scale_by_cu",
     "fail_by_exit_value"}
DEPRECATED_ARGUMENTS == {"computing_nodes", "computingNodes", "workingDir"}

\* The <param>_layout keys of kwargs.
LayoutKeys(kw) == {kw.layouts[k].param \o "_layout" : k \in 1..Len(kw.layouts)}

\* list(kwargs.keys()) of an @mpi declaration.
MpiKeys(kw) ==
    {k \in {"runner", "binary", "flags", "scale_by_cu", "processes",
            "working_dir", "fail_by_exit_value"} : IsSet(kw[k])}
        \cup LayoutKeys(kw) \cup kw.other

\* check_arguments(mandatory, deprecated, supported, keys, name): a mandatory
\* argument that is absent, or a key that is not supported, is an error.
check_arguments_raises(mandatory, supported, keys) ==
    \/ mandatory \ keys # {}
    \/ keys \ supported # {}

\* MPI.__init__ lines 80-89: more than one <param>_layout key is an error.
layout_nums(kw) == Len(kw.layouts)

\* The declaration checks of line 92 alone.
MpiInitRaises_arguments_only(scope, kw) ==
    scope /\ check_arguments_raises(
                 MANDATORY_ARGUMENTS,
                 SUPPORTED_ARGUMENTS \cup LayoutKeys(kw) \cup DEPRECATED_ARGUMENTS,
                 MpiKeys(kw))

\* MPI.__init__: does the declaration raise?  Nothing is checked out of scope.
MpiInitRaises(scope, kw) ==
    scope /\ (\/ layout_nums(kw) > 1
              \/ check_arguments_raises(
                     MANDATORY_ARGUMENTS,
                     SUPPORTED_ARGUMENTS \cup LayoutKeys(kw)
                         \cup DEPRECATED_ARGUMENTS,
                     MpiKeys(kw)))

\* The error of a declaration that raises: line 89, or check_arguments'.
MpiInitError(kw) ==
    IF layout_nums(kw) > 1 THEN "Exception" ELSE "ConfigurationError"

\* MPI.__init__ lines 101-103: the kwargs the decorator object keeps.
MpiInitKwargs(scope, kw) ==
    IF scope /\ ~IsSet(kw.processes) THEN [kw EXCEPT !.processes = Some(1)]
    ELSE kw

\* --------------------------------------------------------- @mpi configuration
UNASSIGNED == "[unassigned]"

\* A loop body that tests block_length only.
LayoutEntry_length_only(l) ==
    LET bc == IF IsSet(l.block_count) THEN Val(l.block_count) ELSE 0 - 1
        bl == IF IsSet(l.block_length) THEN Val(l.block_length) ELSE 0 - 1
        sd == IF IsSet(l.stride) THEN Val(l.stride) ELSE 0 - 1
    IN [param_name |-> l.param, block_count |-> bc, block_length |-> bl,
        stride |-> sd,
        raised |-> bl # 0 - 1 /\ bc = 0 - 1]

\* One pass of the loop body of __resolve_collection_layout_params__ for a
\* <param>_layout key: the four values after it, and whether it raises.
LayoutEntry(l) ==
    LET bc == IF IsSet(l.block_count) THEN Val(l.block_count) ELSE 0 - 1
        bl == IF IsSet(l.block_length) THEN Val(l.block_length) ELSE 0 - 1
        sd == IF IsSet(l.stride) THEN Val(l.stride) ELSE 0 - 1
    IN [param_name |-> l.param, block_count |-> bc, block_length |-> bl,
        stride |-> sd,
        raised |-> (bl # 0 - 1 /\ bc = 0 - 1) \/ (sd # 0 - 1 /\ bc = 0 - 1)]

RECURSIVE LayoutLoop(_, _, _)
\* The for loop over self.kwargs.items(): cur holds the four locals.
LayoutLoop(layouts, k, cur) ==
    IF k > Len(layouts) THEN cur
    ELSE LET e == LayoutEntry(layouts[k])
         IN IF e.raised THEN e ELSE LayoutLoop(layouts, k + 1, e)

\* MPI.__resolve_collection_layout_params__(self, kwargs): the body.
resolve_collection_layout_params(kw) ==
    LET r == LayoutLoop(kw.layouts, 1,
                        [param_name |-> "", block_count |-> 0 - 1,
                         block_length |-> 0 - 1, stride |-> 0 - 1,
                         raised |-> FALSE])
    IN [raised |-> r.raised,
        error |-> IF r.raised THEN "Exception" ELSE "",
        value |-> <<r.param_name, StrInt(r.block_count),
                    StrInt(r.block_length), StrInt(r.stride)>>]

\* Positional parameters, besides self, that the def at mpi.py:153 declares.
LayoutParamsDeclared == 1
\* Positional arguments that the call at mpi.py:232 passes.
LayoutArgsPassed == 0

\* The call self.__resolve_collection_layout_params__() of line 232: Python
\* raises TypeError when the arguments do not fit the parameters.
call_resolve_collection_layout_params(kw) ==
    IF LayoutArgsPassed # LayoutParamsDeclared
    THEN [raised |-> TRUE, error |-> "TypeError", value |-> <<>>]
    ELSE resolve_collection_layout_params(kw)

\* __resolve_working_dir__: the declared working_dir, or the sentinel.
resolve_working_dir(kw) ==
    IF IsSet(kw.working_dir) THEN kw
    ELSE [kw EXCEPT !.working_dir = Some(UNASSIGNED)]

\* __resolve_fail_by_exit_value__: the declared value, or "false".
resolve_fail_by_exit_value(kw) ==
    IF IsSet(kw.fail_by_exit_value) THEN kw
    ELSE [kw EXCEPT !.fail_by_exit_value = Some("false")]

\* Lines 212-225: scale_by_cu as a string, or an error for another type.
scale_by_cu_str(kw) ==
    IF ~IsSet(kw.scale_by_cu) THEN [raised |-> FALSE, value |-> "false"]
    ELSE LET v == Val(kw.scale_by_cu)
         IN CASE v.type = "bool" ->
                   [raised |-> FALSE,
                    value |-> IF v.val = "True" THEN "true" ELSE "false"]
              [] v.type = "str" -> [raised |-> FALSE, value |-> v.val]
              [] OTHER -> [raised |-> TRUE, value |-> ""]

\* Lines 197-203: implementation type from the presence of binary.
mpi_impl_type(kw) == IF IsSet(kw.binary) THEN "MPI" ELSE "PYTHON_MPI"

\* Lines 234-239
mpi_impl_signature(kw, impl_type) ==
    IF ~IsSet(kw.binary) THEN impl_type \o "."
    ELSE impl_type \o "." \o StrInt(Val(kw.processes)) \o "." \o Val(kw.binary)

\* Lines 240-245: kw is self.kwargs after both resolve steps.
mpi_impl_args(kw, scale, layout) ==
    << IF IsSet(kw.binary) THEN Val(kw.binary) ELSE UNASSIGNED,
       Val(kw.working_dir),
       Val(kw.runner),
       IF IsSet(kw.flags) THEN Val(kw.flags) ELSE "[unassigned]",
       scale,
       Val(kw.fail_by_exit_value) >> \o layout

\* MPI.__configure_core_element__ up to line 245: what it computes, where it
\* raises, and what it has already stored on self by then.
mpi_resolve(kw, task_type) ==
    LET impl_type == mpi_impl_type(kw)
        tt == IF IsSet(kw.binary) THEN task_type ELSE impl_type
        sc == scale_by_cu_str(kw)
        kw2 == resolve_fail_by_exit_value(resolve_working_dir(kw))
        lay == call_resolve_collection_layout_params(kw2)
    IN IF sc.raised
       THEN [raised |-> TRUE, error |-> "Exception", task_type |-> tt,
             kwargs |-> kw, impl_type |-> impl_type,
             impl_signature |-> "", impl_args |-> <<>>]
       ELSE IF lay.raised
       THEN [raised |-> TRUE, error |-> lay.error, task_type |-> tt,
             kwargs |-> kw2, impl_type |-> impl_type,
             impl_signature |-> "", impl_args |-> <<>>]
       ELSE [raised |-> FALSE, error |-> "", task_type |-> tt,
             kwargs |-> kw2, impl_type |-> impl_type,
             impl_signature |-> mpi_impl_signature(kw2, impl_type),
             impl_args |-> mpi_impl_args(kw2, sc.value, lay.value)]

\* ------------------------------------------------------ the task function
\* An argument value: an int, or the future of a derived task computing it.
V(n) == [v |-> n, task |-> FALSE]
Future(n) == [v |-> n, task |-> TRUE]

\* The user function is def f(x, z=ZDefault).
Signature == <<"x", "z">>
ZDefault == V(7)

\* A call's keyword arguments that name parameters.
NoKwargs == [x |-> None, z |-> None]

\* The transform function g of a data transformation.
g(n) == n + 10

\* Python's argument binding for f, then f's body.
task_function(args, kwargs) ==
    LET clash == (Len(args) >= 1 /\ IsSet(kwargs.x))
                 \/ (Len(args) >= 2 /\ IsSet(kwargs.z))
                 \/ Len(args) > 2
        nox == Len(args) = 0 /\ ~IsSet(kwargs.x)
        x == IF Len(args) >= 1 THEN args[1] ELSE Val(kwargs.x)
        z == IF Len(args) >= 2 THEN args[2]
             ELSE IF IsSet(kwargs.z) THEN Val(kwargs.z) ELSE ZDefault
    IN IF clash \/ nox
       THEN [raised |-> TRUE, error |-> "TypeError", ret |-> None,
             seen |-> None]
       ELSE [raised |-> FALSE, error |-> "", ret |-> Some(2 * x.v + z.v),
             seen |-> Some([x |-> x, z |-> z])]

\* ---------------------------------------------------------- one invocation
\* The state one invocation of a decorated task reads and writes: the
\* decorator objects of the task, the descriptors, and the call's own
\* args / kwargs.
CallState(stk, sc, ctx, nest, st_ces, st_writers, reg, cec, tt, mkw, dd, objs, args, kwargs, dtkw) ==
    [stack |-> stk, scope |-> sc, ctx |-> ctx, nesting |-> nest,
     dt_args |-> dd.args, ces |-> st_ces, writers |-> st_writers, registered |-> reg,
     core_element_configured |-> cec, task_type |-> tt, mpi_kwargs |-> mkw,
     dt_kwargs |-> dd.is_workflow, args |-> args, kwargs |-> kwargs, dt |-> dtkw,
     kw_ce |-> 0, computing_nodes |-> None,
     configured |-> [constraint |-> 0, mpi |-> 0],
     entered |-> [constraint |-> 0, mpi |-> 0],
     regions |-> <<>>, transforms |-> <<>>, dtos |-> objs,
     held |-> <<>>, released |-> 0,
     outcome |-> "running", error |-> "", ret |-> None, seen |-> None]

Raise(st, err) == [st EXCEPT !.outcome = "raised", !.error = err]

\* with keep_arguments(args, kwargs, prepend_strings=p): the region a layer
\* acquires around its inner call; it holds the argument values to restore.
keep_arguments(st, layer, p) ==
    [st EXCEPT !.regions = Append(@, [layer |-> layer, prepend_strings |-> p]),
               !.held = <<[args |-> st.args, kwargs |-> st.kwargs]>> \o @]

\* The end of the with block, on return and on raise: the region is released
\* and the held argument values are restored.
release_arguments(st) ==
    [st EXCEPT !.args = Head(st.held).args,
               !.kwargs = Head(st.held).kwargs,
               !.held = Tail(@),
               !.released = @ + 1]

\* The innermost callable: the task function on the arguments that reach it.
call_function(st) ==
    LET r == task_function(st.args, st.kwargs)
    IN IF r.raised THEN Raise(st, r.error)
       ELSE [st EXCEPT !.outcome = "returned", !.ret = r.ret, !.seen = r.seen]

\* -------------------------------------------------------------- @constraint
\* constraint.py:84 binds cce to pycompss.api.task.current_core_element, a
\* module attribute: one CE instance for the process, descriptor number 1.
current_core_element == 1

\* A registration test that forgets the role.
constraint_must_register_any_role(ctx, reg) == ~reg

\* Lines 74 and 78: the test that guards registration.
constraint_must_register(ctx, reg) == in_master(ctx) /\ ~reg

\* Line 85: cce.set_impl_constraints(self.kwargs)
constraint_write(st, t) ==
    [st EXCEPT !.ces[current_core_element] =
                   set_impl_constraints(@, ConstraintKwargs(t)),
               !.writers[current_core_element] = @ \cup {t}]

\* Line 88: self.registered = True
constraint_set_registered(st) ==
    [st EXCEPT !.registered = TRUE,
               !.configured.constraint = @ + 1]

\* Lines 74-91 of constrained_f.
constraint_configure(st, t, ctx) ==
    IF constraint_must_register(ctx, st.registered)
    THEN constraint_set_registered(
             constraint_write([st EXCEPT !.entered.constraint = @ + 1], t))
    ELSE st

\* -------------------------------------------------------------------- @mpi
\* A configuration test that forgets the role.
mpi_must_configure_any_role(ctx, cec) == ~cec

\* Lines 128-130: the test that guards configuration.
mpi_must_configure(ctx, cec) == in_master(ctx) /\ ~cec

\* Lines 247-261: write the three fields into the CE of kwargs, or into a new
\* CE that is then stored in kwargs.
mpi_write(st, t, r) ==
    LET fill(ce) == set_impl_type_args(
                        set_impl_signature(set_impl_type(ce, r.impl_type),
                                           r.impl_signature),
                        r.impl_args)
    IN IF st.kw_ce # 0
       THEN [st EXCEPT !.ces[st.kw_ce] = fill(@),
                       !.writers[st.kw_ce] = @ \cup {t}]
       ELSE [st EXCEPT !.ces = Append(@, fill(NewCE)),
                       !.writers = Append(@, {t}),
                       !.kw_ce = Len(st.ces) + 1]

\* Line 264: self.core_element_configured = True
mpi_set_configured(st) ==
    [st EXCEPT !.core_element_configured = TRUE,
               !.configured.mpi = @ + 1]

\* A configure step that sets the flag before it resolves the options.
configure_core_element_flag_first(st, t) ==
    LET r == mpi_resolve(st.mpi_kwargs, st.task_type)
        st1 == [st EXCEPT !.task_type = r.task_type,
                          !.mpi_kwargs = r.kwargs,
                          !.entered.mpi = @ + 1]
    IN IF r.raised THEN Raise(mpi_set_configured(st1), r.error)
       ELSE mpi_set_configured(mpi_write(st1, t, r))

\* MPI.__configure_core_element__(kwargs)
configure_core_element(st, t) ==
    LET r == mpi_resolve(st.mpi_kwargs, st.task_type)
        st1 == [st EXCEPT !.task_type = r.task_type,
                          !.mpi_kwargs = r.kwargs,
                          !.entered.mpi = @ + 1]
    IN IF r.raised THEN Raise(st1, r.error)
       ELSE mpi_set_configured(mpi_write(st1, t, r))

\* Lines 128-134 of mpi_f.
mpi_configure(st, t, ctx) ==
    IF mpi_must_configure(ctx, st.core_element_configured)
    THEN configure_core_element(st, t)
    ELSE st

\* Lines 136-143: computing_nodes for @task, and the marshalling mode.
mpi_prepend_strings(task_type) == task_type = "PYTHON_MPI"

mpi_set_computing_nodes(st) ==
    [st EXCEPT !.computing_nodes = st.mpi_kwargs.processes]

\* ------------------------------------------------------ @data_transformation
\* Decorator arguments: args = (param_name, function) or fewer, and the
\* is_workflow keyword of kwargs.
DtDecl(args, wf) == [args |-> args, is_workflow |-> wf]
NoDtDecl == DtDecl(<<>>, None)

DtOptions == { DtDecl(<<"x", "g">>, None),
               DtDecl(<<"x", "g">>, Some(PyBool(TRUE))),
               DtDecl(<<"z", "g">>, None),
               DtDecl(<<"z", "g">>, Some(PyStr("true"))),
               DtDecl(<<"w", "g">>, None),
               DtDecl(<<>>, None) }

\* data_transformation.py MANDATORY_ARGUMENTS, SUPPORTED_ARGUMENTS and
\* DEPRECATED_ARGUMENTS: three empty sets.
DT_MANDATORY_ARGUMENTS == {}
DT_SUPPORTED_ARGUMENTS == {}
DT_DEPRECATED_ARGUMENTS == {}

\* list(kwargs.keys()) of a @data_transformation declaration.
DtKeys(dd) == IF IsSet(dd.is_workflow) THEN {"is_workflow"} ELSE {}

\* DataTransformation.__init__ lines 78-86.
DtInitRaises(scope, dd) ==
    scope /\ check_arguments_raises(
                 DT_MANDATORY_ARGUMENTS,
                 DT_SUPPORTED_ARGUMENTS \cup DT_DEPRECATED_ARGUMENTS,
                 DtKeys(dd))

\* DTObject(param_name, func, **func_kwargs): an instance keeps the three.
DTObject(param, wf) == [param_name |-> param, func_kwargs |-> wf]

\* The DTObject instances the program builds: dto 1 transforms x as a workflow
\* step, dto 2 transforms z.
DTObjects == <<DTObject("x", Some(PyBool(TRUE))), DTObject("z", None)>>

\* A value passed as the dt keyword of a call: one DTObject, a list of them
\* (by instance number), or something else.
DtOne(k) == [type |-> "DTObject", objs |-> <<k>>]
DtList(ks) == [type |-> "list", objs |-> ks]
DtOther == [type |-> "str", objs |-> <<>>]

\* Lines 135-138: the entries of dts, each with a reference to the
\* func_kwargs dict of its DTObject (extract returns the dict itself).
dt_extract(v) ==
    IF v.type \in {"DTObject", "list"}
    THEN [k \in 1..Len(v.objs) |-> [own |-> FALSE, id |-> v.objs[k]]]
    ELSE <<>>

\* Line 161: is_workflow in [True, "True", "true", 1, "1"]
is_workflow_true(pv) ==
    \/ pv.type = "bool" /\ pv.val = "True"
    \/ pv.type = "str" /\ pv.val \in {"True", "true", "1"}
    \/ pv.type = "int" /\ pv.val = "1"

\* list(keyz).index(param_name) always 0.
ParamIndex_first(name) ==
    IF \E k \in 1..Len(Signature) : Signature[k] = name THEN 1 ELSE 0

\* list(keyz).index(param_name), from 1; 0 when the name is no parameter.
ParamIndex(name) ==
    IF \E k \in 1..Len(Signature) : Signature[k] = name
    THEN CHOOSE k \in 1..Len(Signature) : Signature[k] = name
    ELSE 0

\* inspect's .default of a parameter without default is the empty marker.
ParamDefault(name) == IF name = "z" THEN ZDefault ELSE V(0 - 1)

\* The tuple (param_name, func, func_kwargs) of an entry of dts: the
\* decorator's own (self.args[0], self.args[1], self.kwargs) or a DTObject's.
dt_param(st, d) == IF d.own THEN st.dt_args[1] ELSE st.dtos[d.id].param_name
dt_func_kwargs(st, d) ==
    IF d.own THEN st.dt_kwargs ELSE st.dtos[d.id].func_kwargs

\* Line 160: func_kwargs.pop(is_workflow) on the dict the entry refers to.
dt_pop_is_workflow(st, d) ==
    IF ~IsSet(dt_func_kwargs(st, d)) THEN st
    ELSE IF d.own THEN [st EXCEPT !.dt_kwargs = None]
    ELSE [st EXCEPT !.dtos[d.id].func_kwargs = None]

\* Lines 163-189 with the values of lines 158-161 at hand.
dt_substitute(st, st1, d, param, is_workflow) ==
    LET is_kwarg == param \in {"x", "z"} /\ IsSet(st.kwargs[param])
        i == ParamIndex(param)
        p_value == IF is_kwarg THEN Val(st.kwargs[param])
                   ELSE IF i <= Len(st.args) THEN st.args[i]
                   ELSE ParamDefault(param)
        new_value == IF is_workflow THEN V(g(p_value.v))
                     ELSE Future(g(p_value.v))
        st2 == [st1 EXCEPT !.transforms =
                   Append(@, [param |-> param, workflow |-> is_workflow,
                              input |-> p_value, own |-> d.own, id |-> d.id])]
    IN IF ~is_kwarg /\ i = 0 THEN Raise(st1, "Exception")
       ELSE IF is_kwarg \/ i > Len(st.args)
       THEN [st2 EXCEPT !.kwargs[param] = Some(new_value)]
       ELSE [st2 EXCEPT !.args[i] = new_value]

\* DataTransformation._apply_dt for one (param_name, func, func_kwargs).
apply_dt(st, d) ==
    dt_substitute(st, dt_pop_is_workflow(st, d), d, dt_param(st, d),
                  /\ IsSet(dt_func_kwargs(st, d))
                  /\ is_workflow_true(Val(dt_func_kwargs(st, d))))

RECURSIVE apply_dts(_, _, _)
\* Lines 145-146: for _dt in dts: self._apply_dt(...)
apply_dts(st, dts, k) ==
    IF k > Len(dts) \/ st.outcome = "raised" THEN st
    ELSE apply_dts(apply_dt(st, dts[k]), dts, k + 1)

\* DataTransformation.__call_dt__(user_function, args, kwargs)
call_dt(st, decl_args) ==
    IF Len(st.args) = 0 THEN Raise(st, "PyCOMPSsException")
    ELSE IF IsSet(st.dt)
    THEN apply_dts([st EXCEPT !.dt = None], dt_extract(Val(st.dt)), 1)
    ELSE IF Len(decl_args) < 2 THEN Raise(st, "PyCOMPSsException")
    ELSE apply_dts(st, <<[own |-> TRUE, id |-> 0]>>, 1)

\* A test that forgets the role and the nesting switch.
dt_must_call_any_role(ctx, nesting, configured) == ~configured

\* Lines 107-110 of dt_f; core_element_configured is never set by this class.
dt_must_call(ctx, nesting, configured) ==
    (in_master(ctx) \/ nesting) /\ ~configured

\* ------------------------------------------------------------------- state
VARIABLES
    context,        \* pycompss.util.context: the role of this process
    nesting,        \* CONTEXT.is_nesting_enabled()
    stack,          \* per task: its decorator stack, <<>> while undeclared
    scope,          \* per task: self.scope of its decorators
    registered,     \* per task: Constraint.registered
    core_element_configured,   \* per task: MPI.core_element_configured
    task_type,      \* per task: MPI.task_type
    mpi_kwargs,     \* per task: MPI.kwargs
    dt_decl,        \* per task: DataTransformation.args and .kwargs
    dtos,           \* the DTObject instances of the program, by number
    ces,            \* the CE instances of the process, by number
    writers,        \* per CE instance: the tasks whose layers called a setter
    calls,          \* per task: invocations so far
    last,           \* per task: what the latest invocation did
    hist,           \* per task: submitter-role history
    pc,             \* per thread: where it is inside an invocation
    ALIVE_PROCESSES,   \* interactive_sc/core.py: the module's list
    popen,          \* the subprocess.Popen objects created, by number
    runner,         \* where the CLI's thread is inside _command_runner
    layout_call     \* the latest layout resolution: its option and result

vars == <<context, nesting, stack, scope, registered, core_element_configured,
          task_type, mpi_kwargs, dt_decl, dtos, ces, writers, calls, last,
          hist, pc, ALIVE_PROCESSES, popen, runner, layout_call>>

\* The state of pycompss_player's remote tooling and the record of a layout
\* resolution: no operation on a task reads or writes it.
tool_vars == <<ALIVE_PROCESSES, popen, runner, layout_call>>

decl_vars == <<stack, scope, registered, core_element_configured, task_type,
               mpi_kwargs, dt_decl, dtos>>

\* What a call was made with.
Input(args, kwargs, dtkw) == [args |-> args, kwargs |-> kwargs, dt |-> dtkw]

NoCall == [role |-> OUT_OF_SCOPE, outcome |-> "none", error |-> "",
           ret |-> None, seen |-> None, direct |-> None,
           kw_ce |-> 0, computing_nodes |-> None,
           configured |-> [constraint |-> 0, mpi |-> 0],
           entered |-> [constraint |-> 0, mpi |-> 0],
           regions |-> <<>>, transforms |-> <<>>, dt_left |-> FALSE,
           held |-> <<>>, released |-> 0, args |-> <<>>, kwargs |-> NoKwargs,
           raised_by |-> "", call |-> Input(<<>>, NoKwargs, None)]

\* The threads of the process that invoke tasks.
Threads == {1, 2}

Idle == [at |-> "idle", task |-> "", layer |-> 0, kw_ce |-> 0,
         computing_nodes |-> None, regions |-> <<>>]

\* The CLI's thread is not inside _command_runner.
RunnerIdle == [at |-> "idle", p |-> 0, error |-> ""]

\* No layout option has been resolved.
NoLayoutCall == [key |-> <<>>, layout |-> <<>>, result |-> None]

NoHist == [master_calls |-> 0,
           configured |-> [constraint |-> 0, mpi |-> 0],
           entered |-> [constraint |-> 0, mpi |-> 0],
           first |-> None, first_swapped |-> None]

Init ==
    /\ context = OUT_OF_SCOPE
    /\ nesting = FALSE
    /\ stack = [t \in Tasks |-> <<>>]
    /\ scope = [t \in Tasks |-> FALSE]
    /\ registered = [t \in Tasks |-> FALSE]
    /\ core_element_configured = [t \in Tasks |-> FALSE]
    /\ task_type = [t \in Tasks |-> "mpi"]
    /\ mpi_kwargs = [t \in Tasks |-> NoMpiKw]
    /\ dt_decl = [t \in Tasks |-> NoDtDecl]
    /\ dtos = DTObjects
    /\ ces = <<NewCE>>
    /\ writers = <<{}>>
    /\ calls = [t \in Tasks |-> 0]
    /\ last = [t \in Tasks |-> NoCall]
    /\ hist = [t \in Tasks |-> NoHist]
    /\ pc = [th \in Threads |-> Idle]
    /\ ALIVE_PROCESSES = <<>>
    /\ popen = <<>>
    /\ runner = RunnerIdle
    /\ layout_call = NoLayoutCall

\* ----------------------------------------------------------------- wrappers
RECURSIVE RunLayer(_, _, _)

\* A scope test that never takes the out-of-scope branch.
not_in_scope_never(sc) == FALSE

\* if not self.scope: the decorator was constructed out of scope.
not_in_scope(sc) == ~sc

\* constrained_f with func called outside any region.
constrained_f_no_region(t, i, st) ==
    IF not_in_scope(st.scope)
    THEN RunLayer(t, i + 1, st)
    ELSE RunLayer(t, i + 1, constraint_configure(st, t, st.ctx))

\* Constraint.__call__.constrained_f; func is the next layer of the stack.
constrained_f(t, i, st) ==
    IF not_in_scope(st.scope)
    THEN RunLayer(t, i + 1, st)   \* the dummy constraint calls func
    ELSE release_arguments(
             RunLayer(t, i + 1,
                      keep_arguments(constraint_configure(st, t, st.ctx),
                                     "constraint", TRUE)))

\* Lines 136-149 of mpi_f, after the configure step left st1.
mpi_call(t, i, st1) ==
    IF st1.outcome = "raised" THEN st1
    ELSE release_arguments(
             RunLayer(t, i + 1,
                      keep_arguments(mpi_set_computing_nodes(st1), "mpi",
                                     mpi_prepend_strings(st1.task_type))))

\* MPI.__call__.mpi_f
mpi_f(t, i, st) ==
    IF not_in_scope(st.scope) THEN Raise(st, "not_in_pycompss")
    ELSE mpi_call(t, i, mpi_configure(st, t, st.ctx))

\* Lines 111-115 of dt_f, after __call_dt__ left st1.
dt_call(t, i, st1) ==
    IF st1.outcome = "raised" THEN st1
    ELSE release_arguments(
             RunLayer(t, i + 1, keep_arguments(st1, "dt", TRUE)))

\* DataTransformation.__call__.dt_f
dt_f(t, i, st) ==
    IF not_in_scope(st.scope) THEN Raise(st, "NotImplementedError")
    ELSE dt_call(t, i, IF dt_must_call(st.ctx, st.nesting, FALSE)
                       THEN call_dt(st, st.dt_args) ELSE st)

\* Layer i of the stack of t, or the task function below the last layer.
RunLayer(t, i, st) ==
    IF i > Len(st.stack) THEN call_function(st)
    ELSE CASE st.stack[i] = "constraint" -> constrained_f(t, i, st)
           [] st.stack[i] = "mpi" -> mpi_f(t, i, st)
           [] st.stack[i] = "dt" -> dt_f(t, i, st)

\* ----------------------------------------------------------------- actions
\* A start that sets the submitter role whatever the role is.
start_from_any_role(flags_ok) ==
    /\ context' = MASTER
    /\ UNCHANGED <<nesting, decl_vars, ces, writers, calls, last, hist, pc,
                   tool_vars>>

\* interactive.start(): lines 251-266.  Whether check_flags then accepts the
\* flags (line 331) changes nothing the role depends on.
start(flags_ok) ==
    /\ context' = IF in_pycompss(context) THEN context ELSE MASTER
    /\ UNCHANGED <<nesting, decl_vars, ces, writers, calls, last, hist, pc,
                   tool_vars>>

\* The worker entry point sets the role of an executing worker, with nesting
\* enabled or not.
WorkerStartup(n) ==
    /\ context = OUT_OF_SCOPE
    /\ context' = WORKER
    /\ nesting' = n
    /\ UNCHANGED <<decl_vars, ces, writers, calls, last, hist, pc, tool_vars>>

\* interactive.stop(): lines 508-509 and 603.
stop ==
    /\ context' = OUT_OF_SCOPE
    /\ nesting' = FALSE
    /\ UNCHANGED <<decl_vars, ces, writers, calls, last, hist, pc, tool_vars>>

\* The def of a task function under a decorator stack: every decorator
\* object is constructed (__init__) with the role of that moment.
Declare(t, stk, mkw, dd) ==
    LET sc == in_pycompss(context)
        has_mpi == \E k \in 1..Len(stk) : stk[k] = "mpi"
        has_dt == \E k \in 1..Len(stk) : stk[k] = "dt"
    IN /\ stack[t] = <<>>
       /\ last[t].outcome = "none"
       /\ IF \/ has_mpi /\ MpiInitRaises(sc, mkw)
             \/ has_dt /\ DtInitRaises(sc, dd)
          THEN /\ last' = [last EXCEPT ![t] =
                             [NoCall EXCEPT !.outcome = "declare_raised",
                                            !.error = IF has_mpi
                                                      THEN MpiInitError(mkw)
                                                      ELSE "ConfigurationError",
                                            !.raised_by = IF has_mpi
                                                          THEN "mpi" ELSE "dt",
                                            !.role = context]]
               /\ UNCHANGED <<decl_vars>>
          ELSE /\ stack' = [stack EXCEPT ![t] = stk]
               /\ scope' = [scope EXCEPT ![t] = sc]
               /\ mpi_kwargs' = [mpi_kwargs EXCEPT ![t] =
                                   IF has_mpi THEN MpiInitKwargs(sc, mkw)
                                   ELSE NoMpiKw]
               /\ dt_decl' = [dt_decl EXCEPT ![t] =
                                IF has_dt THEN dd ELSE NoDtDecl]
               /\ UNCHANGED <<registered, core_element_configured,
                              task_type, dtos, last>>
       /\ UNCHANGED <<context, nesting, ces, writers, calls, hist, pc,
                      tool_vars>>

\* A two-layer stack with its layers in the other order.
Swapped(stk) == IF Len(stk) = 2 THEN <<stk[2], stk[1]>> ELSE stk

\* The CE instances a task's layers have written, as field values.
View(t, cs, ws) == {cs[k] : k \in {j \in 1..Len(cs) : t \in ws[j]}}

\* One invocation t(*args, **kwargs, dt=dtkw) of a declared task, from the
\* outermost wrapper down to the task function and back.
\* The return of an invocation: what the wrappers left on the decorator
\* objects and in the descriptors (fin), and the record of the call.
Return(t, inp, fin, swp, direct) ==
    LET submit == in_master(context) /\ scope[t]
        h == hist[t]
    IN /\ calls' = [calls EXCEPT ![t] = @ + 1]
       /\ registered' = [registered EXCEPT ![t] = fin.registered]
       /\ core_element_configured' =
              [core_element_configured EXCEPT ![t] = fin.core_element_configured]
       /\ task_type' = [task_type EXCEPT ![t] = fin.task_type]
       /\ mpi_kwargs' = [mpi_kwargs EXCEPT ![t] = fin.mpi_kwargs]
       /\ dt_decl' = [dt_decl EXCEPT ![t].is_workflow = fin.dt_kwargs]
       /\ dtos' = fin.dtos
       /\ ces' = fin.ces
       /\ writers' = fin.writers
       /\ last' = [last EXCEPT ![t] =
              [role |-> context, outcome |-> fin.outcome, error |-> fin.error,
               ret |-> fin.ret, seen |-> fin.seen, direct |-> direct.ret,
               kw_ce |-> fin.kw_ce, computing_nodes |-> fin.computing_nodes,
               configured |-> fin.configured, entered |-> fin.entered,
               regions |-> fin.regions, transforms |-> fin.transforms,
               dt_left |-> IsSet(fin.dt), held |-> fin.held,
               released |-> fin.released, args |-> fin.args,
               kwargs |-> fin.kwargs, raised_by |-> "", call |-> inp]]
       /\ hist' = [hist EXCEPT ![t] =
              IF ~submit THEN h
              ELSE [master_calls |-> h.master_calls + 1,
                    configured |->
                        [constraint |-> h.configured.constraint
                                        + fin.configured.constraint,
                         mpi |-> h.configured.mpi + fin.configured.mpi],
                    entered |->
                        [constraint |-> h.entered.constraint
                                        + fin.entered.constraint,
                         mpi |-> h.entered.mpi + fin.entered.mpi],
                    first |-> IF h.master_calls = 0
                              THEN Some(View(t, fin.ces, fin.writers))
                              ELSE h.first,
                    first_swapped |->
                        IF h.master_calls = 0
                        THEN Some(View(t, swp.ces, swp.writers))
                        ELSE h.first_swapped]]
       /\ UNCHANGED <<context, nesting, stack, scope, pc, tool_vars>>

Call(t, args, kwargs, dtkw) ==
    LET st0 == CallState(stack[t], scope[t], context, nesting, ces, writers,
                         registered[t], core_element_configured[t],
                         task_type[t], mpi_kwargs[t], dt_decl[t], dtos,
                         args, kwargs, dtkw)
    IN /\ stack[t] # <<>>
       /\ calls[t] < MaxCalls
       /\ Return(t, Input(args, kwargs, dtkw), RunLayer(t, 1, st0),
                 RunLayer(t, 1, [st0 EXCEPT !.stack = Swapped(stack[t])]),
                 task_function(args, kwargs))

HasLayer(stk, layer) == \E k \in 1..Len(stk) : stk[k] = layer

\* The declarations the model draws from: f under every stack and option
\* set, g as a second constrained task.
StacksOf(t) == IF t = "f" THEN Stacks ELSE {<<"constraint">>}
MpiOptionsOf(stk) == IF HasLayer(stk, "mpi") THEN MpiOptions ELSE {NoMpiKw}
DtOptionsOf(stk) ==
    IF HasLayer(stk, "dt")
    THEN {DtDecl(<<"x", "g">>, None), DtDecl(<<"z", "g">>, Some(PyStr("true"))),
          DtDecl(<<>>, None)}
    ELSE {NoDtDecl}

\* The arguments the model calls a task with.
Values == {V(5)}
ArgLists == {<<>>} \cup {<<v>> : v \in Values} \cup {<<v, V(6)>> : v \in Values}
KwargSets == {NoKwargs, [NoKwargs EXCEPT !.z = Some(V(6))]}
                 \cup {[NoKwargs EXCEPT !.x = Some(v)] : v \in Values}
DtKwargs == {None, Some(DtOne(1)), Some(DtList(<<1, 2>>)), Some(DtList(<<>>)),
             Some(DtOther)}

\* Positional-only calls for the stacks that do not look at the arguments.
ArgListsOf(stk) == IF HasLayer(stk, "dt") THEN {<<>>, <<V(5)>>} ELSE {<<V(5)>>}
KwargSetsOf(stk) == {NoKwargs}
DtKwargsOf(stk) == {None}

Next ==
    \/ \E b \in BOOLEAN : start(b)
    \/ \E n \in BOOLEAN : WorkerStartup(n)
    \/ stop
    \/ \E t \in Tasks : \E stk \in StacksOf(t) :
         \E mkw \in MpiOptionsOf(stk), dd \in DtOptionsOf(stk) :
           Declare(t, stk, mkw, dd)
    \/ \E t \in Tasks :
         \E a \in ArgListsOf(stack[t]), k \in KwargSetsOf(stack[t]),
            d \in DtKwargsOf(stack[t]) :
           Call(t, a, k, d)

Spec == Init /\ [][Next]_vars

\* ------------------------------------------------------------------ threads
\* The same wrappers, one step at a time, for threads of one process that
\* invoke tasks concurrently: the interpreter may switch threads between the
\* test of a flag, the configure step and the setting of the flag.

\* The call state of the invocation thread th is in.
ThreadSt(th) ==
    LET p == pc[th]
        t == p.task
    IN [CallState(stack[t], scope[t], context, nesting, ces, writers,
                  registered[t], core_element_configured[t],
                  task_type[t], mpi_kwargs[t], dt_decl[t], dtos,
                  <<V(5)>>, NoKwargs, None)
        EXCEPT !.kw_ce = p.kw_ce, !.computing_nodes = p.computing_nodes,
               !.regions = p.regions]

\* Store what a step changed on the decorator objects and the descriptors.
Commit(t, st) ==
    /\ registered' = [registered EXCEPT ![t] = st.registered]
    /\ core_element_configured' =
           [core_element_configured EXCEPT ![t] = st.core_element_configured]
    /\ task_type' = [task_type EXCEPT ![t] = st.task_type]
    /\ mpi_kwargs' = [mpi_kwargs EXCEPT ![t] = st.mpi_kwargs]
    /\ dt_decl' = [dt_decl EXCEPT ![t].is_workflow = st.dt_kwargs]
    /\ dtos' = st.dtos
    /\ ces' = st.ces
    /\ writers' = st.writers

\* The thread moves on inside the invocation.
Goto(th, st, layer, at) ==
    pc' = [pc EXCEPT ![th] = [at |-> at, task |-> pc[th].task,
                              layer |-> layer, kw_ce |-> st.kw_ce,
                              computing_nodes |-> st.computing_nodes,
                              regions |-> st.regions]]

\* The invocation ends: it returned or raised.
Finish(th, st) ==
    /\ pc' = [pc EXCEPT ![th] = Idle]
    /\ last' = [last EXCEPT ![pc[th].task] =
           [role |-> context, outcome |-> st.outcome, error |-> st.error,
            ret |-> st.ret, seen |-> st.seen, direct |-> None,
            kw_ce |-> st.kw_ce, computing_nodes |-> st.computing_nodes,
            configured |-> st.configured, entered |-> st.entered,
            regions |-> st.regions, transforms |-> st.transforms,
            dt_left |-> IsSet(st.dt), held |-> <<>>,
            released |-> Len(st.regions), args |-> st.args,
            kwargs |-> st.kwargs, raised_by |-> "",
            call |-> Input(<<V(5)>>, NoKwargs, None)]]

\* A thread calls t(5).
T_Enter(th, t) ==
    /\ pc[th].at = "idle"
    /\ stack[t] # <<>>
    /\ calls[t] < MaxCalls
    /\ calls' = [calls EXCEPT ![t] = @ + 1]
    /\ pc' = [pc EXCEPT ![th] = [Idle EXCEPT !.at = "test", !.task = t,
                                             !.layer = 1]]
    /\ hist' = [hist EXCEPT ![t].master_calls =
                   IF in_master(context) /\ scope[t] THEN @ + 1 ELSE @]
    /\ UNCHANGED <<context, nesting, decl_vars, ces, writers, last,
                   tool_vars>>

\* The head of a wrapper: the scope test and the test of the layer's flag
\* (constraint.py 66-78, mpi.py 122-130, data_transformation.py 101-110).
T_Test(th) ==
    LET p == pc[th]
        t == p.task
        st == ThreadSt(th)
        kind == stack[t][p.layer]
    IN /\ p.at = "test"
       /\ CASE kind = "constraint" ->
                 /\ Goto(th, st, p.layer,
                         IF ~not_in_scope(scope[t])
                            /\ constraint_must_register(context, st.registered)
                         THEN "write" ELSE "inner")
                 /\ UNCHANGED <<decl_vars, ces, writers, last>>
            [] kind = "mpi" ->
                 IF not_in_scope(scope[t])
                 THEN /\ Finish(th, Raise(st, "not_in_pycompss"))
                      /\ UNCHANGED <<decl_vars, ces, writers>>
                 ELSE /\ Goto(th, st, p.layer,
                              IF mpi_must_configure(context,
                                                    st.core_element_configured)
                              THEN "write" ELSE "inner")
                      /\ UNCHANGED <<decl_vars, ces, writers, last>>
            [] kind = "dt" ->
                 LET st1 == IF not_in_scope(scope[t])
                            THEN Raise(st, "NotImplementedError")
                            ELSE IF dt_must_call(context, nesting, FALSE)
                            THEN call_dt(st, dt_decl[t].args) ELSE st
                 IN IF st1.outcome = "raised"
                    THEN /\ Finish(th, st1)
                         /\ Commit(t, st1)
                         /\ UNCHANGED <<stack, scope>>
                    ELSE /\ Goto(th, st1, p.layer, "inner")
                         /\ Commit(t, st1)
                         /\ UNCHANGED <<stack, scope, last>>
       /\ UNCHANGED <<context, nesting, calls, hist, tool_vars>>

\* The configure step of the layer (constraint.py 84-85, mpi.py 131).
T_Write(th) ==
    LET p == pc[th]
        t == p.task
        st == ThreadSt(th)
        kind == stack[t][p.layer]
        st1 == IF kind = "constraint" THEN constraint_write(st, t)
               ELSE LET r == mpi_resolve(st.mpi_kwargs, st.task_type)
                        s1 == [st EXCEPT !.task_type = r.task_type,
                                         !.mpi_kwargs = r.kwargs]
                    IN IF r.raised THEN Raise(s1, r.error)
                       ELSE mpi_write(s1, t, r)
    IN /\ p.at = "write"
       /\ Commit(t, st1)
       /\ hist' = [hist EXCEPT ![t].entered[kind] = @ + 1]
       /\ IF st1.outcome = "raised"
          THEN Finish(th, st1)
          ELSE Goto(th, st1, p.layer, "flag") /\ UNCHANGED last
       /\ UNCHANGED <<context, nesting, stack, scope, calls, tool_vars>>

\* The layer sets its flag (constraint.py 88, mpi.py 264).
T_Flag(th) ==
    LET p == pc[th]
        t == p.task
        st == ThreadSt(th)
        kind == stack[t][p.layer]
        st1 == IF kind = "constraint" THEN constraint_set_registered(st)
               ELSE mpi_set_configured(st)
    IN /\ p.at = "flag"
       /\ Commit(t, st1)
       /\ hist' = [hist EXCEPT ![t].configured[kind] = @ + 1]
       /\ Goto(th, st1, p.layer, "inner")
       /\ UNCHANGED <<context, nesting, stack, scope, calls, last,
                      tool_vars>>

\* The layer acquires its region and calls func: the next wrapper, or the
\* task function, which runs to its end.
T_Inner(th) ==
    LET p == pc[th]
        t == p.task
        st == ThreadSt(th)
        kind == stack[t][p.layer]
        st1 == CASE kind = "constraint" ->
                      IF not_in_scope(scope[t]) THEN st
                      ELSE keep_arguments(st, kind, TRUE)
                 [] kind = "mpi" ->
                      keep_arguments(mpi_set_computing_nodes(st), kind,
                                     mpi_prepend_strings(st.task_type))
                 [] kind = "dt" -> keep_arguments(st, kind, TRUE)
    IN /\ p.at = "inner"
       /\ IF p.layer < Len(stack[t])
          THEN Goto(th, st1, p.layer + 1, "test") /\ UNCHANGED last
          ELSE Finish(th, call_function(st1))
       /\ UNCHANGED <<context, nesting, decl_vars, ces, writers, calls, hist,
                      tool_vars>>

\* Threads invoke f under the stacks that configure a descriptor.
ThreadStacks == {<<"constraint">>, <<"mpi">>, <<"constraint", "mpi">>}
ThreadMpiOptions(stk) ==
    IF HasLayer(stk, "mpi")
    THEN {MpiKw(Some("mpirun"), None, None, None, None, <<>>)}
    ELSE {NoMpiKw}

NextThreads ==
    \/ \E b \in BOOLEAN : start(b)
    \/ \E t \in Tasks : \E stk \in ThreadStacks :
         \E mkw \in ThreadMpiOptions(stk) :
           Declare(t, stk, mkw, NoDtDecl)
    \/ \E th \in Threads, t \in Tasks : T_Enter(th, t)
    \/ \E th \in Threads : T_Test(th)
    \/ \E th \in Threads : T_Write(th)
    \/ \E th \in Threads : T_Flag(th)
    \/ \E th \in Threads : T_Inner(th)

SpecThreads == Init /\ [][NextThreads]_vars

\* ------------------------------------------------------ data transformations
\* The task f under @data_transformation alone, with every declaration of
\* DtOptions and every way of calling it.
NextDT ==
    \/ \E b \in BOOLEAN : start(b)
    \/ \E n \in BOOLEAN : WorkerStartup(n)
    \/ stop
    \/ \E dd \in DtOptions : Declare("f", <<"dt">>, NoMpiKw, dd)
    \/ \E a \in ArgLists, k \in KwargSets, d \in DtKwargs : Call("f", a, k, d)

SpecDT == Init /\ [][NextDT]_vars

\* ------------------------------------------- remote tooling: subprocesses
\* pycompss_player/core/remote/interactive_sc/core.py.
MaxProcesses == 3

\* The bytes a pipe delivers and bytes.decode(DECODING_FORMAT).
Bytes(text) == [bytes |-> text]
decode(b) == b.bytes

\* subprocess.Popen(cmd, shell=True, stdout=PIPE, stderr=PIPE): a process
\* that runs, with nothing read from it yet.
Popen(blocking) ==
    [blocking |-> blocking, state |-> "running", returncode |-> None,
     stdout |-> Bytes(""), stderr |-> Bytes(""), returned |-> None]

\* Popen.kill(): SIGKILL to a process that has not ended, which then ends
\* with return code -9.
kill(procs, p) ==
    IF procs[p].state = "running"
    THEN [procs EXCEPT ![p].state = "killed", ![p].returncode = Some(0 - 9)]
    ELSE procs

RECURSIVE kill_each(_, _, _)
\* for p in ALIVE_PROCESSES: p.kill()
kill_each(procs, alive, k) ==
    IF k > Len(alive) THEN procs
    ELSE kill_each(kill(procs, alive[k]), alive, k + 1)

\* A handler that kills the first process of the list only.
signal_handler_kills_first(procs, alive) ==
    IF alive # <<>> THEN kill(procs, Head(alive)) ELSE procs

\* Lines 73-75 of __signal_handler.
signal_handler_kills(procs, alive) ==
    IF alive # <<>> THEN kill_each(procs, alive, 1) ELSE procs

\* __signal_handler(sig, frame): SIGINT arrives at any point of the thread.
signal_handler ==
    /\ popen' = signal_handler_kills(popen, ALIVE_PROCESSES)
    /\ UNCHANGED <<ALIVE_PROCESSES, runner>>

\* _command_runner, lines 311-326: the command is built and the process
\* started; a remote command on Windows raises before any process exists.
command_runner(blocking, remote, windows) ==
    /\ runner.at = "idle"
    /\ Len(popen) < MaxProcesses
    /\ IF remote /\ windows
       THEN /\ runner' = [RunnerIdle EXCEPT !.error = "NotImplementedError"]
            /\ UNCHANGED popen
       ELSE /\ popen' = Append(popen, Popen(blocking))
            /\ runner' = [at |-> IF blocking THEN "communicate" ELSE "append",
                          p |-> Len(popen) + 1, error |-> ""]
    /\ UNCHANGED ALIVE_PROCESSES

\* A started process ends by itself with a return code and its output.
ProcessExits(p, rc, out) ==
    /\ p \in 1..Len(popen)
    /\ popen[p].state = "running"
    /\ popen' = [popen EXCEPT ![p].state = "exited",
                              ![p].returncode = Some(rc),
                              ![p].stdout = Bytes(out)]
    /\ UNCHANGED <<ALIVE_PROCESSES, runner>>

\* Lines 328-331: p.communicate() returns once the process has ended, and
\* the call returns p.returncode and the decoded output.
communicate ==
    /\ runner.at = "communicate"
    /\ popen[runner.p].state # "running"
    /\ popen' = [popen EXCEPT ![runner.p].returned =
                    Some(<<Val(popen[runner.p].returncode),
                           decode(popen[runner.p].stdout),
                           decode(popen[runner.p].stderr)>>)]
    /\ runner' = RunnerIdle
    /\ UNCHANGED ALIVE_PROCESSES

\* An else branch that drops the process.
append_alive_nothing(alive, p) == alive

\* Line 333: ALIVE_PROCESSES.append(p)
append_alive(alive, p) == Append(alive, p)

\* Lines 332-333: the non-blocking call records the process and returns None.
append ==
    /\ runner.at = "append"
    /\ ALIVE_PROCESSES' = append_alive(ALIVE_PROCESSES, runner.p)
    /\ runner' = RunnerIdle
    /\ UNCHANGED popen

task_vars == <<context, nesting, stack, scope, registered,
               core_element_configured, task_type, mpi_kwargs, dt_decl, dtos,
               ces, writers, calls, last, hist, pc>>

NextRemote ==
    \/ \E b, r, w \in BOOLEAN :
         command_runner(b, r, w) /\ UNCHANGED <<task_vars, layout_call>>
    \/ \E p \in 1..MaxProcesses, rc \in {0, 1}, out \in {"SUCCESS", "ERROR"} :
         ProcessExits(p, rc, out) /\ UNCHANGED <<task_vars, layout_call>>
    \/ communicate /\ UNCHANGED <<task_vars, layout_call>>
    \/ append /\ UNCHANGED <<task_vars, layout_call>>
    \/ signal_handler /\ UNCHANGED <<task_vars, layout_call>>

SpecRemote == Init /\ [][NextRemote]_vars

\* -------------------------------------------------------- layout options
\* The key of a layout option, in pieces: "_layout" is the piece that
\* key.split("_layout") splits at.
LayoutOptionKeys == {<<"x", "_layout">>, <<"my", "_arg", "_layout">>}

RECURSIVE split_layout_first(_, _)
\* key.split("_layout")[0]: what precedes the first "_layout" of the key.
split_layout_first(key, k) ==
    IF k > Len(key) \/ key[k] = "_layout" THEN ""
    ELSE key[k] \o split_layout_first(key, k + 1)

\* The numbers a layout dict may hold.
MaxBlock == 2
LayoutNumbers == {None} \cup {Some(n) : n \in 0..MaxBlock} \cup {Some(12)}

\* __resolve_collection_layout_params__ on an MPI object declared with the
\* one layout option key = {block_count: bc, block_length: bl, stride: sd},
\* each of the three present or not.
resolve_layout(key, bc, bl, sd) ==
    /\ layout_call' =
           [key |-> key,
            layout |-> [block_count |-> bc, block_length |-> bl, stride |-> sd],
            result |-> Some(resolve_collection_layout_params(
                          MpiKw(Some("mpirun"), None, None, None, Some(1),
                                <<Layout(split_layout_first(key, 1),
                                         bc, bl, sd)>>)))]
    /\ UNCHANGED <<task_vars, ALIVE_PROCESSES, popen, runner>>

NextLayout ==
    \E key \in LayoutOptionKeys, bc, bl, sd \in LayoutNumbers :
        resolve_layout(key, bc, bl, sd)

SpecLayout == Init /\ [][NextLayout]_vars

\* ----------------------------------------------------------- CE accessors
\* The setter and the getter of a field, by the field's name.
SetterOf(field, ce, v) ==
    CASE field = "ceSignature" -> set_ce_signature(ce, v)
      [] field = "implSignature" -> set_impl_signature(ce, v)
      [] field = "implConstraints" -> set_impl_constraints(ce, v)
      [] field = "implType" -> set_impl_type(ce, v)
      [] field = "implIO" -> set_impl_io(ce, v)
      [] field = "implTypeArgs" -> set_impl_type_args(ce, v)

GetterOf(field, ce) ==
    CASE field = "ceSignature" -> get_ce_signature(ce)
      [] field = "implSignature" -> get_impl_signature(ce)
      [] field = "implConstraints" -> get_impl_constraints(ce)
      [] field = "implType" -> get_impl_type(ce)
      [] field = "implIO" -> get_impl_io(ce)
      [] field = "implTypeArgs" -> get_impl_type_args(ce)

\* The values the setters are called with.
CEValues == {"v1", "v2"}

\* ce.set_<field>(v) on descriptor k.
ce_set(k, field, v) ==
    /\ k \in 1..Len(ces)
    /\ ces' = [ces EXCEPT ![k] = SetterOf(field, @, v)]
    /\ UNCHANGED <<context, nesting, decl_vars, writers, calls, last, hist, pc,
                   tool_vars>>

\* ce.reset() on descriptor k.
ce_reset(k) ==
    /\ k \in 1..Len(ces)
    /\ ces' = [ces EXCEPT ![k] = reset(@)]
    /\ UNCHANGED <<context, nesting, decl_vars, writers, calls, last, hist, pc,
                   tool_vars>>

NextCE ==
    \/ \E field \in CEFields, v \in CEValues : ce_set(1, field, v)
    \/ ce_reset(1)

SpecCE == Init /\ [][NextCE]_vars

\* ------------------------------------------------------------------- claims
Done(t) == last[t].outcome \in {"returned", "raised"}
Layers == {"constraint", "mpi"}
LayersOf(t) == {l \in Layers : HasLayer(stack[t], l)}

\* scale_by_cu is absent, a bool or a string: the declared options are ones
\* the configure step accepts.
WellTyped(kw) ==
    IsSet(kw.scale_by_cu) => Val(kw.scale_by_cu).type \in {"bool", "str"}

\* C1 (as claimed): in the submitter role, after N >= 1 invocations of a
\* decorated task the configure step of each of its layers has completed
\* exactly once, and the descriptor values equal those after call 1.
C1_ConfiguredExactlyOnce ==
    \A t \in Tasks :
        (hist[t].master_calls >= 1 /\ WellTyped(mpi_kwargs[t])) =>
            /\ \A l \in LayersOf(t) : hist[t].configured[l] = 1
            /\ View(t, ces, writers) = Val(hist[t].first)

\* C2 (as claimed): two threads invoking the same task never both pass the
\* test of a layer's flag: at most one of them is between the test and the
\* setting of the flag, and the configure step is entered at most once.
C2_TestAndSetSerialized ==
    /\ \A a, b \in Threads :
          (a # b /\ pc[a].task = pc[b].task /\ pc[a].layer = pc[b].layer)
              => ~(pc[a].at \in {"write", "flag"} /\ pc[b].at \in {"write", "flag"})
    /\ \A t \in Tasks : hist[t].entered.constraint <= 1

\* C3: while the role is WORKER no step writes a descriptor, creates one, or
\* sets the registered / core_element_configured flag of any layer.
C3_WorkerNeverConfigures ==
    [][context = WORKER =>
          /\ ces' = ces
          /\ writers' = writers
          /\ registered' = registered
          /\ core_element_configured' = core_element_configured]_vars

\* A task stacked @constraint over @mpi was invoked twice, always as worker.
C3_Witness ==
    \E t \in Tasks :
        /\ stack[t] = <<"constraint", "mpi">>
        /\ context = WORKER
        /\ calls[t] = 2
        /\ hist[t].master_calls = 0
        /\ last[t].role = WORKER
        /\ last[t].outcome = "returned"

C5_FieldsWrittenOnce ==
    [][\A k \in 1..Len(ces) : \A fld \in CEFields :
           IsSet(ces[k][fld]) => ces'[k][fld] = ces[k][fld]]_vars

\* C6 (as claimed): the descriptors a task has after its first submitter-role
\* call are the same, field by field, had its two layers been stacked in the
\* other order.
C6_OrderInvariance ==
    \A t \in Tasks :
        (Len(stack[t]) = 2 /\ hist[t].master_calls >= 1
         /\ WellTyped(mpi_kwargs[t]))
            => hist[t].first = hist[t].first_swapped

\* C7 (as claimed): no descriptor instance is written by two declared tasks,
\* and no declared task writes into two descriptor instances.
C7_OneDescriptorPerTask ==
    /\ \A k \in 1..Len(ces) : Cardinality(writers[k]) <= 1
    /\ \A t \in Tasks :
          Cardinality({k \in 1..Len(ces) : t \in writers[k]}) <= 1

\* C8 (as claimed): when the constraint layer configures first in a call, the
\* layer that configures later in that call extends the same descriptor: the
\* call ends with one descriptor of the task that holds the constraints,
\* unchanged, next to the fields of the later layer.
C8_LaterLayerExtends ==
    \A t \in Tasks :
        (/\ stack[t] = <<"constraint", "mpi">>
         /\ WellTyped(mpi_kwargs[t])
         /\ last[t].role = MASTER
         /\ last[t].entered.constraint = 1
         /\ last[t].entered.mpi = 1)
            => \E k \in 1..Len(ces) :
                  /\ t \in writers[k]
                  /\ ces[k].implConstraints = Some(ConstraintKwargs(t))
                  /\ IsSet(ces[k].implType)
                  /\ IsSet(ces[k].implTypeArgs)

\* @mpi declared with a runner and nothing else that shapes implementationArgs.
OnlyRunner(kw) ==
    /\ IsSet(kw.runner)
    /\ ~IsSet(kw.binary) /\ ~IsSet(kw.flags) /\ ~IsSet(kw.scale_by_cu)
    /\ kw.layouts = <<>>

\* C9 (as claimed): after the first submitter-role call of an MPI task
\* declared with only a runner the configuration is complete and
\* implementationArgs is ["[unassigned]", workingDir, runner, "[unassigned]",
\* "false", failByExitValue, "", "-1", "-1", "-1"].
C9_SentinelEncoding ==
    \A t \in Tasks :
        (/\ stack[t] = <<"mpi">>
         /\ OnlyRunner(mpi_kwargs[t])
         /\ hist[t].master_calls >= 1)
            => /\ core_element_configured[t]
               /\ \E k \in 1..Len(ces) :
                     /\ t \in writers[k]
                     /\ ces[k].implTypeArgs =
                            Some(<<"[unassigned]",
                                   Val(mpi_kwargs[t].working_dir),
                                   Val(mpi_kwargs[t].runner),
                                   "[unassigned]", "false",
                                   Val(mpi_kwargs[t].fail_by_exit_value),
                                   "", "-1", "-1", "-1">>)

\* C10 (as claimed): after the first submitter-role call of an MPI task,
\* whatever options it declares, implementationType is MPI when binary is
\* declared and PYTHON_MPI otherwise, and implementationArgs has exactly 10
\* entries, binary first.
C10_TypeAndTenArgs ==
    \A t \in Tasks :
        (/\ stack[t] = <<"mpi">>
         /\ WellTyped(mpi_kwargs[t])
         /\ hist[t].master_calls >= 1)
            => \E k \in 1..Len(ces) :
                  /\ t \in writers[k]
                  /\ ces[k].implType =
                         Some(IF IsSet(mpi_kwargs[t].binary)
                              THEN "MPI" ELSE "PYTHON_MPI")
                  /\ IsSet(ces[k].implTypeArgs)
                  /\ Len(Val(ces[k].implTypeArgs)) = 10
                  /\ Val(ces[k].implTypeArgs)[1] =
                         (IF IsSet(mpi_kwargs[t].binary)
                          THEN Val(mpi_kwargs[t].binary) ELSE "[unassigned]")

C13_UnknownKeysRejected ==
    \A k \in 1..Len(ces) :
        IsSet(ces[k].implConstraints)
            => \A kv \in Val(ces[k].implConstraints) :
                   kv[1] \in EngineConstraintNames

\* The value Python binds to parameter p in a direct call with the input c.
Bound(c, p) ==
    IF ParamIndex(p) <= Len(c.args) THEN c.args[ParamIndex(p)]
    ELSE IF IsSet(c.kwargs[p]) THEN Val(c.kwargs[p])
    ELSE ParamDefault(p)

\* The latest call of t was a submitter-role call of a task under
\* @data_transformation(p, g), declared in scope, made without dt keyword and
\* with arguments the undecorated function accepts.
DtCall(t, p) ==
    /\ stack[t] = <<"dt">> /\ scope[t]
    /\ dt_decl[t].args = <<p, "g">>
    /\ Done(t) /\ last[t].role = MASTER
    /\ ~IsSet(last[t].call.dt)
    /\ IsSet(last[t].direct)

Other(p) == IF p = "x" THEN "z" ELSE "x"

\* C14: a submitter-role call that passes the target parameter by position
\* makes the function observe g(v), as the derived task's result or as the
\* value itself, in place of v, and the other argument as it was passed.
C14_Substitution ==
    \A t \in Tasks : \A p \in {"x", "z"} :
        (DtCall(t, p) /\ ParamIndex(p) <= Len(last[t].call.args)) =>
            /\ last[t].outcome = "returned"
            /\ Val(last[t].seen)[p].v = Bound(last[t].call, p).v + 10
            /\ Val(last[t].seen)[Other(p)] = Bound(last[t].call, Other(p))

\* f(5, 6) under a transformation of z: the function saw x = 5 and the
\* derived task's result g(6) = 16.
C14_Witness ==
    \E t \in Tasks :
        /\ DtCall(t, "z")
        /\ last[t].call.args = <<V(5), V(6)>>
        /\ last[t].seen = Some([x |-> V(5), z |-> Future(16)])

\* C15 (as claimed): however the call supplies the target parameter (by
\* position, by keyword with or without positional arguments, or not at all
\* so that the default applies), the function runs and observes g of it.
C15_ThreeWays ==
    \A t \in Tasks : \A p \in {"x", "z"} :
        DtCall(t, p) =>
            /\ last[t].outcome = "returned"
            /\ Val(last[t].seen)[p].v = g(Bound(last[t].call, p).v)

\* No transform arguments are available to the latest call of t, or the
\* parameter its decorator names is no parameter of the function.
NoTransform(t) ==
    \/ /\ Len(dt_decl[t].args) < 2
       /\ \/ ~IsSet(last[t].call.dt)
          \/ Val(last[t].call.dt).type \notin {"DTObject", "list"}
          \/ Val(last[t].call.dt).objs = <<>>
    \/ /\ Len(dt_decl[t].args) = 2
       /\ ~IsSet(last[t].call.dt)
       /\ ParamIndex(dt_decl[t].args[1]) = 0

\* C16 (as claimed): such a submitter-role call raises the error of the
\* data-transformation layer and the function is not executed.
C16_FailsWithoutTransform ==
    \A t \in Tasks :
        (/\ stack[t] = <<"dt">> /\ scope[t]
         /\ Done(t) /\ last[t].role = MASTER
         /\ NoTransform(t))
            => /\ last[t].outcome = "raised"
               /\ last[t].error \in {"PyCOMPSsException", "Exception"}
               /\ ~IsSet(last[t].seen)

\* C17 (as claimed): every transform a call applies through a DTObject built
\* with the workflow flag is applied in-process, and every transform of a
\* DTObject built without it is submitted as a derived task.
C17_WorkflowEveryInvocation ==
    \A t \in Tasks :
        \A k \in 1..Len(last[t].transforms) :
            LET tr == last[t].transforms[k]
                declared == DTObjects[tr.id].func_kwargs
            IN ~tr.own =>
                   tr.workflow = (IsSet(declared)
                                  /\ is_workflow_true(Val(declared)))

\* C18: start() sets the submitter role from the unset role and leaves a set
\* role as it is, stop() ends with the role unset, and the role only changes
\* from unset to submitter or worker, or back to unset.
C18_RoleTransitions ==
    [][/\ (\E b \in BOOLEAN : start(b))
            => context' = IF context = OUT_OF_SCOPE THEN MASTER ELSE context
       /\ stop => context' = OUT_OF_SCOPE
       /\ context' # context
            => \/ context = OUT_OF_SCOPE /\ context' \in {MASTER, WORKER}
               \/ context' = OUT_OF_SCOPE]_vars

\* The role went from unset to submitter, a task was invoked, and the role
\* is unset again.
C18_Witness ==
    \E t \in Tasks :
        /\ context = OUT_OF_SCOPE
        /\ Done(t) /\ last[t].role = MASTER

ConfigureRaised(c) ==
    /\ c.entered.mpi = 1
    /\ c.outcome = "raised"
    /\ \A k \in 1..Len(c.regions) : c.regions[k].layer # "mpi"

\* C21: when the configure step of the MPI layer raises during a call, the
\* call ends with that error, the task function is not executed, the step has
\* written no descriptor field and stored no descriptor in kwargs, and the
\* layer's configured flag is still false.
C21_ConfigureRaisePropagates ==
    [][\A t \in Tasks :
          (last'[t] # last[t] /\ ConfigureRaised(last'[t])) =>
              /\ last'[t].error \in {"TypeError", "Exception"}
              /\ ~IsSet(last'[t].seen) /\ ~IsSet(last'[t].ret)
              /\ last'[t].kw_ce = 0
              /\ Len(ces') = Len(ces)
              /\ \A k \in 1..Len(ces) :
                     \A fld \in {"implType", "implSignature", "implTypeArgs"} :
                         ces'[k][fld] = ces[k][fld]
              /\ last'[t].configured.mpi = 0
              /\ ~core_element_configured'[t]]_vars

\* f under @constraint over @mpi: the constraint layer has written its field,
\* the configure step of the MPI layer raised and left its flag false.
C21_Witness ==
    \E t \in Tasks :
        /\ stack[t] = <<"constraint", "mpi">> /\ scope[t]
        /\ ConfigureRaised(last[t]) /\ last[t].role = MASTER
        /\ last[t].configured.constraint = 1
        /\ ~core_element_configured[t]

\* C23 (as claimed): an MPI annotation declared in scope has processes set,
\* and every invocation of its task, in the submitter and in the worker role,
\* reaches the inner call with computing_nodes equal to the declared
\* processes.
C23_ComputingNodesPassed ==
    \A t \in Tasks :
        (/\ Done(t) /\ scope[t] /\ HasLayer(stack[t], "mpi")
         /\ last[t].role \in {MASTER, WORKER}
         /\ WellTyped(mpi_kwargs[t]))
            => /\ IsSet(mpi_kwargs[t].processes)
               /\ last[t].computing_nodes = mpi_kwargs[t].processes
               /\ \E k \in 1..Len(last[t].regions) :
                      last[t].regions[k].layer = "mpi"

\* The latest call of t was a submitter-role call of a task declared in scope
\* under @data_transformation, made with a DTObject or a list of them as the
\* dt keyword and with arguments the undecorated function accepts.
DtKeywordCall(t) ==
    /\ stack[t] = <<"dt">> /\ scope[t]
    /\ Done(t) /\ last[t].role = MASTER
    /\ IsSet(last[t].call.dt)
    /\ Val(last[t].call.dt).type \in {"DTObject", "list"}
    /\ IsSet(last[t].direct)

\* C24 (as claimed): a call that supplies the dt keyword applies the
\* transforms of that value, one per DTObject and in list order, none from
\* the decorator's own arguments, and the function runs without the dt
\* keyword.
C24_TransformsFromKeyword ==
    \A t \in Tasks :
        DtKeywordCall(t) =>
            LET objs == Val(last[t].call.dt).objs
                done == last[t].transforms
            IN /\ last[t].outcome = "returned"
               /\ ~last[t].dt_left
               /\ Len(done) = Len(objs)
               /\ \A k \in 1..Len(done) :
                      ~done[k].own /\ done[k].id = objs[k]

\* The processes in ALIVE_PROCESSES.
Alive == {ALIVE_PROCESSES[k] : k \in 1..Len(ALIVE_PROCESSES)}

\* What C25 says of one state: a process of a non-blocking call that has
\* returned is in ALIVE_PROCESSES, a process of a blocking call never is, and
\* a blocking call has returned only the return code and decoded output of a
\* process that has ended.
RemoteProcessesTracked ==
    \A p \in 1..Len(popen) :
        /\ (~popen[p].blocking /\ runner.p # p) => p \in Alive
        /\ popen[p].blocking => p \notin Alive
        /\ IsSet(popen[p].returned) =>
               /\ popen[p].blocking
               /\ popen[p].state # "running"
               /\ Val(popen[p].returned) =
                      <<Val(popen[p].returncode), popen[p].stdout.bytes,
                        popen[p].stderr.bytes>>

\* C25: every process started by a non-blocking _command_runner call is in
\* ALIVE_PROCESSES from the return of the call on, a blocking call never adds
\* to ALIVE_PROCESSES and returns (return code, stdout, stderr) only after
\* the process has ended, and after the SIGINT handler no process of
\* ALIVE_PROCESSES is running.
C25_AliveProcesses ==
    [][/\ RemoteProcessesTracked'
       /\ \A p \in Alive : p \in Alive'
       /\ signal_handler =>
              \A p \in Alive : popen'[p].state # "running"]_vars

\* Two tunnels were started without blocking and were still running when
\* SIGINT arrived: both are in the list and both were killed; a blocking
\* call made before has returned its result.
C25_Witness ==
    /\ Len(ALIVE_PROCESSES) = 2
    /\ \A p \in Alive : popen[p].state = "killed"
    /\ \E p \in 1..Len(popen) :
           popen[p].blocking /\ popen[p].returned = Some(<<0, "SUCCESS", "">>)

\* C26 (as claimed): a start() from the unset role that returns because
\* check_flags reported issues leaves the role unset, so that in_pycompss()
\* is false for the start() that follows.
C26_FailedStartLeavesUnset ==
    [][(context = OUT_OF_SCOPE /\ start(FALSE)) =>
           ~in_pycompss(context')]_vars

\* What the function observes in a direct call with the input c.
Observed(c) == [x |-> Bound(c, "x"), z |-> Bound(c, "z")]

C28_PrependStringsByBinary ==
    \A t \in Tasks :
        (Done(t) /\ scope[t] /\ HasLayer(stack[t], "mpi")) =>
            \A k \in 1..Len(last[t].regions) :
                last[t].regions[k].layer = "mpi" =>
                    last[t].regions[k].prepend_strings
                        = ~IsSet(mpi_kwargs[t].binary)

RECURSIVE Joined(_)
\* The pieces of a key as one string.
Joined(pieces) ==
    IF pieces = <<>> THEN "" ELSE Head(pieces) \o Joined(Tail(pieces))

\* str(n) of a number the layout gives, "-1" for one it does not give.
GivenOrMinusOne(o) == IF IsSet(o) THEN StrInt(Val(o)) ELSE "-1"

C30_AccessorsFrame ==
    [][\A k \in 1..Len(ces) :
          /\ ces[k] = NewCE =>
                 \A f \in CEFields : GetterOf(f, ces[k]) = None
          /\ \A f \in CEFields, v \in CEValues :
                 ce_set(k, f, v) =>
                     /\ GetterOf(f, ces'[k]) = Some(v)
                     /\ \A h \in CEFields \ {f} :
                            GetterOf(h, ces'[k]) = GetterOf(h, ces[k])
          /\ ce_reset(k) =>
                 \A f \in CEFields : GetterOf(f, ces'[k]) = None]_vars

\* All six fields hold a value, the type the one set last.
C30_Witness ==
    /\ \A f \in CEFields \ {"implType"} : GetterOf(f, ces[1]) = Some("v1")
    /\ get_impl_type(ces[1]) = Some("v2")

====
